---- MODULE Spec2Model ----
(***************************************************************************)
(* Model of quota-puppeteer-api (src/server.js): the GET /api/quota        *)
(* handler, the browser session it launches, and the row extraction that   *)
(* runs inside page.evaluate.                                              *)
(*                                                                         *)
(* Text is a sequence of one-character strings.  Numbers produced by       *)
(* parseFloat are exact decimals num / 10^scale, or NaN; the inputs are    *)
(* drawn so that decimal arithmetic and IEEE-754 double arithmetic round   *)
(* to the same integer (no enumerated token has a fourth fractional digit  *)
(* 5, the only place where the double product v * 1000 can fall on the     *)
(* other side of a rounding tie).                                          *)
(***************************************************************************)
EXTENDS Integers, Sequences, FiniteSets, TLC

\* ------------------------------------------------------------------------
\* Bounds of the model
\* ------------------------------------------------------------------------
NumRequests == 2
MaxRows == 2
MaxTokLen == 3

\* ------------------------------------------------------------------------
\* Characters and strings
\* ------------------------------------------------------------------------
Digits == <<"0", "1", "2", "3", "4", "5", "6", "7", "8", "9">>

UpperLetters == <<"A", "E", "G", "I", "K", "L", "M", "N", "O", "R", "T">>

LowerLetters == <<"a", "e", "g", "i", "k", "l", "m", "n", "o", "r", "t">>

IsDigit(c) == \E d \in 1..10 : Digits[d] = c

DigitValue(c) == (CHOOSE d \in 1..10 : Digits[d] = c) - 1

\* \s of the regular expression and the white space String.prototype.trim strips
IsSpace(c) == c = " "

toLowerCaseChar(c) ==
  IF \E k \in 1..Len(UpperLetters) : UpperLetters[k] = c
  THEN LowerLetters[CHOOSE k \in 1..Len(UpperLetters) : UpperLetters[k] = c]
  ELSE c

toLowerCase(s) == [k \in 1..Len(s) |-> toLowerCaseChar(s[k])]

RECURSIVE trimStart(_)
trimStart(s) ==
  IF s # <<>> /\ IsSpace(Head(s)) THEN trimStart(Tail(s)) ELSE s

RECURSIVE trimEnd(_)
trimEnd(s) ==
  IF s # <<>> /\ IsSpace(s[Len(s)]) THEN trimEnd(SubSeq(s, 1, Len(s) - 1)) ELSE s

\* String.prototype.trim
trim(s) == trimEnd(trimStart(s))

\* s.replace(/\s/g, '')
removeSpaces(s) == SelectSeq(s, LAMBDA c : ~IsSpace(c))

startsWith(s, p) == Len(s) >= Len(p) /\ SubSeq(s, 1, Len(p)) = p

RECURSIVE Pow10(_)
Pow10(n) == IF n = 0 THEN 1 ELSE 10 * Pow10(n - 1)

\* ------------------------------------------------------------------------
\* Numbers: exact decimals num / 10^scale, or NaN
\* ------------------------------------------------------------------------
NaN == [nan |-> TRUE, num |-> 0, scale |-> 0]

Num(n, s) == [nan |-> FALSE, num |-> n, scale |-> s]

\* number of leading decimal digits of s from position p on
RECURSIVE DigitRun(_, _)
DigitRun(s, p) ==
  IF p <= Len(s) /\ IsDigit(s[p]) THEN 1 + DigitRun(s, p + 1) ELSE 0

RECURSIVE DigitsValue(_)
DigitsValue(s) ==
  IF s = <<>> THEN 0
  ELSE 10 * DigitsValue(SubSeq(s, 1, Len(s) - 1)) + DigitValue(s[Len(s)])

\* parseFloat: the longest prefix that is a decimal literal (digits, an
\* optional point, digits; at least one digit), NaN when there is none
parseFloat(s) ==
  LET t == trimStart(s)
      il == DigitRun(t, 1)
      hasDot == il + 1 <= Len(t) /\ t[il + 1] = "."
      fl == IF hasDot THEN DigitRun(t, il + 2) ELSE 0
  IN IF il = 0 /\ fl = 0 THEN NaN
     ELSE Num(DigitsValue(SubSeq(t, 1, il) \o SubSeq(t, il + 2, il + 1 + fl)), fl)

\* x * k for a non-negative integer k
Times(x, k) == IF x.nan THEN NaN ELSE Num(x.num * k, x.scale)

MathRoundFloor(x) ==
  IF x.nan THEN NaN ELSE Num(x.num \div Pow10(x.scale), 0)

\* Math.round: the nearest integer, ties towards +Infinity; NaN stays NaN
MathRound(x) ==
  IF x.nan THEN NaN
  ELSE Num((2 * x.num + Pow10(x.scale)) \div (2 * Pow10(x.scale)), 0)

RECURSIVE NatToString(_)
NatToString(n) ==
  IF n < 10 THEN <<Digits[n + 1]>>
  ELSE NatToString(n \div 10) \o <<Digits[(n % 10) + 1]>>

\* template-literal conversion of an integral number or NaN
NumberToString(x) == IF x.nan THEN <<"N", "a", "N">> ELSE NatToString(x.num)

\* ------------------------------------------------------------------------
\* balanceText.match(/([\d\s.]+)\s*(Kilogram|Tonne|kg|TNE)/i)
\* ------------------------------------------------------------------------
Null == [null |-> TRUE]

UnitAlternatives ==
  << <<"K", "i", "l", "o", "g", "r", "a", "m">>,
     <<"T", "o", "n", "n", "e">>,
     <<"k", "g">>,
     <<"T", "N", "E">> >>

\* [\d\s.]
InClass(c) == IsDigit(c) \/ IsSpace(c) \/ c = "."

\* alternative u matches at position p, letter case ignored (flag i)
UnitAt(t, p, u) ==
  /\ p + Len(u) - 1 <= Len(t)
  /\ \A k \in 1..Len(u) : toLowerCaseChar(t[p + k - 1]) = toLowerCaseChar(u[k])

\* number of consecutive characters from position p on that are in [\d\s.]
RECURSIVE ClassRun(_, _)
ClassRun(t, p) ==
  IF p <= Len(t) /\ InClass(t[p]) THEN 1 + ClassRun(t, p + 1) ELSE 0

\* number of consecutive white-space characters from position p on
RECURSIVE SpaceRun(_, _)
SpaceRun(t, p) ==
  IF p <= Len(t) /\ IsSpace(t[p]) THEN 1 + SpaceRun(t, p + 1) ELSE 0

\* the ways the pattern matches from start position i: g characters in
\* group 1, then w characters of \s*, then alternative a
Attempts(t, i) ==
  UNION { UNION { { <<g, w, a>> : a \in { b \in 1..Len(UnitAlternatives) :
                                          UnitAt(t, i + g + w, UnitAlternatives[b]) } } :
                  w \in 0..SpaceRun(t, i + g) } :
          g \in 1..ClassRun(t, i) }

SetMax(S) == CHOOSE m \in S : \A n \in S : n <= m

SetMin(S) == CHOOSE m \in S : \A n \in S : m <= n

\* the match from start position i: group 1 greedy, \s* greedy, first alternative
MatchFrom(t, i, att) ==
  LET g == SetMax({ x[1] : x \in att })
      w == SetMax({ x[2] : x \in { y \in att : y[1] = g } })
      a == SetMin({ x[3] : x \in { y \in att : y[1] = g /\ y[2] = w } })
  IN [null |-> FALSE,
      g1 |-> SubSeq(t, i, i + g - 1),
      g2 |-> SubSeq(t, i + g + w, i + g + w + Len(UnitAlternatives[a]) - 1)]

\* String.prototype.match without the g flag: the leftmost match, or null
RECURSIVE RegexMatchFrom(_, _)
RegexMatchFrom(t, i) ==
  IF i > Len(t) THEN Null
  ELSE LET att == Attempts(t, i)
       IN IF att = {} THEN RegexMatchFrom(t, i + 1) ELSE MatchFrom(t, i, att)

RegexMatch(t) == RegexMatchFrom(t, 1)

\* ------------------------------------------------------------------------
\* Row extraction: the callback of page.evaluate
\* ------------------------------------------------------------------------
\* s.split('-'): the components between the separators ('' splits to [''])
RECURSIVE split(_, _)
split(s, sep) ==
  IF \E k \in 1..Len(s) : s[k] = sep
  THEN LET k == SetMin({ j \in 1..Len(s) : s[j] = sep })
       IN <<SubSeq(s, 1, k - 1)>> \o split(SubSeq(s, k + 1, Len(s)), sep)
  ELSE <<s>>

reverse(a) == [k \in 1..Len(a) |-> a[Len(a) + 1 - k]]

RECURSIVE join(_, _)
join(a, sep) ==
  IF a = <<>> THEN <<>>
  ELSE IF Len(a) = 1 THEN a[1]
  ELSE a[1] \o <<sep>> \o join(Tail(a), sep)

moreInfoUrlNoReverse(startDate, ordNum) ==
  [page |-> "quota_tariff_details.jsp?Lang=en",
   StartDate |-> join(split(startDate, "-"), "-"),
   Code |-> ordNum]

\* the detail-page address: the fixed template with its two substitutions
moreInfoUrl(startDate, ordNum) ==
  [page |-> "quota_tariff_details.jsp?Lang=en",
   StartDate |-> join(reverse(split(startDate, "-")), "-"),
   Code |-> ordNum]

\* unit.startsWith('t') || unit === 'tne', unit being match[2].toLowerCase()
isTonne(g2) ==
  LET unit == toLowerCase(g2)
  IN startsWith(unit, <<"t">>) \/ unit = <<"t", "n", "e">>

\* rawValue and balanceKg of a matched balance cell
balanceKgOf(match) ==
  LET rawValue == parseFloat(removeSpaces(match.g1))
  IN IF isTonne(match.g2) THEN MathRound(Times(rawValue, 1000)) ELSE rawValue

\* the record the callback returns for a matched row (scrapedAt, the wall
\* clock at the time of the scrape, is left out)
BuildRecord(ordNum, origin, startDate, endDate, match) ==
  LET balanceKg == balanceKgOf(match)
  IN [null |-> FALSE,
      orderNumber |-> ordNum,
      origin |-> origin,
      startDate |-> startDate,
      endDate |-> endDate,
      balance |-> NumberToString(MathRound(balanceKg)) \o <<" ">> \o UnitAlternatives[1],
      balanceKg |-> MathRound(balanceKg),
      unit |-> "Kilogram",
      moreInfoUrl |-> moreInfoUrl(startDate, ordNum)]

RECURSIVE ScanRowsLastWins(_, _, _)
ScanRowsLastWins(rows, i, ordNum) ==
  IF i > Len(rows) THEN [row |-> 0, record |-> Null]
  ELSE LET cells == rows[i]
           later == ScanRowsLastWins(rows, i + 1, ordNum)
       IN IF later.row # 0 THEN later
          ELSE IF Len(cells) < 5 THEN later
          ELSE IF trim(cells[1]) # ordNum THEN later
          ELSE LET match == RegexMatch(trim(cells[5]))
               IN IF match.null THEN later
                  ELSE [row |-> i,
                        record |-> BuildRecord(ordNum, trim(cells[2]), trim(cells[3]),
                                               trim(cells[4]), match)]

RECURSIVE ScanRowsStopAtMalformed(_, _, _)
ScanRowsStopAtMalformed(rows, i, ordNum) ==
  IF i > Len(rows) THEN [row |-> 0, record |-> Null]
  ELSE LET cells == rows[i]
       IN IF Len(cells) < 5 THEN ScanRowsStopAtMalformed(rows, i + 1, ordNum)
          ELSE IF trim(cells[1]) # ordNum THEN ScanRowsStopAtMalformed(rows, i + 1, ordNum)
          ELSE LET match == RegexMatch(trim(cells[5]))
               IN IF match.null THEN [row |-> 0, record |-> Null]
                  ELSE [row |-> i,
                        record |-> BuildRecord(ordNum, trim(cells[2]), trim(cells[3]),
                                               trim(cells[4]), match)]

RECURSIVE ScanRowsLaxFilter(_, _, _)
ScanRowsLaxFilter(rows, i, ordNum) ==
  IF i > Len(rows) THEN [row |-> 0, record |-> Null]
  ELSE LET cells == rows[i]
       IN IF Len(cells) < 4 THEN ScanRowsLaxFilter(rows, i + 1, ordNum)
          ELSE IF toLowerCase(trim(cells[1])) # toLowerCase(ordNum)
               THEN ScanRowsLaxFilter(rows, i + 1, ordNum)
          ELSE LET match == RegexMatch(trim(cells[Len(cells)]))
               IN IF match.null THEN ScanRowsLaxFilter(rows, i + 1, ordNum)
                  ELSE [row |-> i,
                        record |-> BuildRecord(ordNum, trim(cells[2]), trim(cells[3]),
                                               trim(cells[4]), match)]

\* the for loop over the rows from row i on: the row at which `return`
\* executes (0 when the loop runs off the end) and the value returned
RECURSIVE ScanRows(_, _, _)
ScanRows(rows, i, ordNum) ==
  IF i > Len(rows) THEN [row |-> 0, record |-> Null]
  ELSE LET cells == rows[i]
       IN IF Len(cells) < 5 THEN ScanRows(rows, i + 1, ordNum)
          ELSE IF trim(cells[1]) # ordNum THEN ScanRows(rows, i + 1, ordNum)
          ELSE LET match == RegexMatch(trim(cells[5]))
               IN IF match.null THEN ScanRows(rows, i + 1, ordNum)
                  ELSE [row |-> i,
                        record |-> BuildRecord(ordNum, trim(cells[2]), trim(cells[3]),
                                               trim(cells[4]), match)]

\* page.evaluate(callback, orderNumber) on a loaded document
Evaluate(rows, ordNum) == ScanRows(rows, 1, ordNum).record

\* ------------------------------------------------------------------------
\* State
\* ------------------------------------------------------------------------
VARIABLES
  pc,          \* per request: the await the handler is suspended at
  q,           \* per request: req.query
  browser,     \* per request: the local `browser` (0 is null)
  sessions,    \* per launched browser: calls of close() and the requests using it
  navUrl,      \* per request: the address handed to page.goto
  gotoCalls,   \* per request: number of page.goto calls
  doc,         \* per request: the rows of the document the page loaded
  result,      \* per request: the value of page.evaluate
  error,       \* per request: error.message of the caught exception
  resp,        \* per request: the response sent
  closesAtSend,\* per request: close() calls on its browser when the response was sent
  connected,   \* per request: the caller is still connected
  env,         \* the queries callers send and the documents the site serves
  ext,         \* the extraction under test: rows, order number, outcome
  bal          \* the balance cell under test: text and outcome

hvars == <<pc, q, browser, sessions, navUrl, gotoCalls, doc, result, error, resp,
           closesAtSend, connected, env>>

vars == <<pc, q, browser, sessions, navUrl, gotoCalls, doc, result, error, resp,
          closesAtSend, connected, env, ext, bal>>

Requests == 1..NumRequests

NoResp == [status |-> 0]

NoSession == [launched |-> FALSE, closeCalls |-> 0, usedBy |-> {}]

\* the handler at rest, serving nothing
InitHandler ==
  /\ env = [queries |-> {}, docs |-> {}]
  /\ pc = [r \in Requests |-> "idle"]
  /\ q = [r \in Requests |-> Null]
  /\ browser = [r \in Requests |-> 0]
  /\ sessions = [s \in Requests |-> NoSession]
  /\ navUrl = [r \in Requests |-> Null]
  /\ gotoCalls = [r \in Requests |-> 0]
  /\ doc = [r \in Requests |-> <<>>]
  /\ result = [r \in Requests |-> Null]
  /\ error = [r \in Requests |-> ""]
  /\ resp = [r \in Requests |-> NoResp]
  /\ closesAtSend = [r \in Requests |-> 0]
  /\ connected = [r \in Requests |-> TRUE]

NoExt == [phase |-> "off"]

NoBal == [phase |-> "off"]

\* ------------------------------------------------------------------------
\* Inputs: cell texts, rows, documents
\* ------------------------------------------------------------------------
SeqsUpTo(S, n) == UNION { [1..k -> S] : k \in 0..n }

Ord07 == <<"0", "7">>

OrdA7 == <<"a", "7">>

Date1 == <<"0", "5", "-", "0", "3", "-", "2", "0", "2", "5">>

Date2 == <<"3", "1", "-", "1", "2", "-", "2", "0", "2", "5">>

Kg5 == <<"5", " ", "k", "g">>

Tonne500 == <<"5", "0", "0", " ", "T", "o", "n", "n", "e">>

Malformed == <<"n", "/", "a">>

DotKg == <<".", " ", "k", "g">>

KeyCells == { Ord07, <<" ", "0", "7", " ">>, <<"7">>, OrdA7, <<"A", "7">> }

StartDates == { Date1, <<"2", "0", "2", "5">>, <<>>, <<"5", "-", "3">>,
                <<"-", "1">>, <<"1", "-", "-", "2">> }

ExtractRows ==
  { <<k, <<"B", "R">>, Date1, Date2, b>> : k \in KeyCells, b \in { Kg5, Tonne500, Malformed } }
  \cup { <<Ord07, <<" ", "A", "R">>, d, Date2, Kg5>> : d \in StartDates }
  \cup { <<Ord07, <<"B", "R">>, Date1, Kg5>>,
         <<Ord07, <<"B", "R">>, Date1, Date2, Tonne500, Kg5>>,
         <<Ord07, <<"B", "R">>, Date1, Date2, DotKg>> }

ExtractOrdNums == { Ord07, OrdA7 }

TokChars == { "0", "1", "2", ".", " " }

\* tokens of the examples; their kilogram values are exact in binary
ExampleToks ==
  { <<"1", "2", "3", "4", ".", "4">>, <<"1", "2", "3", "4", ".", "5">>,
    <<"1", "2">>, <<"0", ".", "5">>, <<"5", "0", "0">>, <<"1", " ", "5", "0", "0", ".", "5">>,
    <<"1", ".", "5", ".", "5">> }

Toks == SeqsUpTo(TokChars, MaxTokLen) \cup ExampleToks

Prefixes == { <<>>, <<"c", "a", " ">>, <<"1", " ", "x">> }

UnitSpellings ==
  { UnitAlternatives[1], <<"K", "I", "L", "O", "G", "R", "A", "M">>,
    <<"k", "i", "l", "o", "g", "r", "a", "m">>,
    UnitAlternatives[2], <<"T", "O", "N", "N", "E">>, <<"t", "o", "n", "n", "e">>,
    UnitAlternatives[3], <<"K", "G">>, <<"K", "g">>,
    UnitAlternatives[4], <<"t", "n", "e">>, <<"T", "n", "e">> }

Suffixes == UnitSpellings \cup { <<>>, <<"t">>, <<"k", "g", "s">>, <<"l">> }

\* ------------------------------------------------------------------------
\* The balance cell under test
\* ------------------------------------------------------------------------
\* lines 77-93 on one cell: trim, match, parse, normalise, round
ParseBalance(text) ==
  LET balanceText == trim(text)
      match == RegexMatch(balanceText)
  IN IF match.null THEN [matched |-> FALSE]
     ELSE [matched |-> TRUE,
           g1 |-> match.g1,
           g2 |-> match.g2,
           rawValue |-> parseFloat(removeSpaces(match.g1)),
           balanceKg |-> MathRound(balanceKgOf(match))]

InitParse ==
  /\ InitHandler
  /\ ext = NoExt
  /\ \E p \in Prefixes, t \in Toks, u \in Suffixes :
       bal = [phase |-> "cell", pre |-> p, tok |-> t, suf |-> u]

ParseCell ==
  /\ bal.phase = "cell"
  /\ bal' = [phase |-> "parsed", pre |-> bal.pre, tok |-> bal.tok, suf |-> bal.suf,
             out |-> ParseBalance(bal.pre \o bal.tok \o bal.suf)]
  /\ UNCHANGED <<hvars, ext>>

NextParse == ParseCell

ParseSpec == InitParse /\ [][NextParse]_vars

\* ------------------------------------------------------------------------
\* The extraction under test
\* ------------------------------------------------------------------------
InitExtract ==
  /\ InitHandler
  /\ bal = NoBal
  /\ \E rows \in SeqsUpTo(ExtractRows, MaxRows), o \in ExtractOrdNums :
       ext = [phase |-> "loaded", rows |-> rows, ordNum |-> o]

EvaluatePage ==
  /\ ext.phase = "loaded"
  /\ ext' = [phase |-> "evaluated", rows |-> ext.rows, ordNum |-> ext.ordNum,
             out |-> ScanRows(ext.rows, 1, ext.ordNum)]
  /\ UNCHANGED <<hvars, bal>>

NextExtract == EvaluatePage

ExtractSpec == InitExtract /\ [][NextExtract]_vars

\* ------------------------------------------------------------------------
\* The handler of GET /api/quota, one action per settled await
\* ------------------------------------------------------------------------
Year2025 == <<"2", "0", "2", "5">>

BR == <<"B", "R">>

HandlerQueries ==
  { [orderNumber |-> Ord07, year |-> Year2025, origin |-> BR],
    [orderNumber |-> OrdA7, year |-> Year2025, origin |-> BR],
    [orderNumber |-> Ord07, year |-> <<>>, origin |-> BR] }

\* a document whose first key-matching row has a malformed balance cell
DocFound ==
  << <<Ord07, BR, Date1, Date2>>,
     <<Ord07, BR, Date1, Date2, Malformed>>,
     <<Ord07, BR, Date1, Date2, Tonne500>>,
     <<Ord07, <<"A", "R">>, Date1, Date2, Kg5>> >>

\* a document without a qualifying row for either order number
DocNone ==
  << <<Ord07, BR, Date1, Kg5>>,
     <<<<"7">>, BR, Date1, Date2, Kg5>>,
     <<Ord07, BR, Date1, Date2, Malformed>>,
     <<<<"A", "7">>, BR, Date1, Date2, Kg5>> >>

\* a document whose balance cell has a numeric token without a digit
DocDots ==
  << <<Ord07, BR, Date1, Date2, DotKg>>,
     <<OrdA7, BR, <<"2", "0", "2", "5">>, Date2, Kg5>> >>

HandlerDocs == { DocFound, DocNone, DocDots }

NavigationErrors == { "Navigation timeout of 30000 ms exceeded", "net::ERR_CONNECTION_RESET" }

CloseError == "Protocol error: Connection closed"

\* parseInt: the leading decimal digits, NaN when there is none
parseInt(s) ==
  LET t == trimStart(s)
      il == DigitRun(t, 1)
  IN IF il = 0 THEN NaN ELSE Num(DigitsValue(SubSeq(t, 1, il)), 0)

Plus(x, k) == IF x.nan THEN NaN ELSE Num(x.num + k, x.scale)

\* lines 53-55
BuildUrl(query) ==
  LET currentYear == parseInt(query.year)
      nextYear == Plus(currentYear, 1)
  IN [page |-> "quota_consultation.jsp?Lang=en",
      Code |-> query.orderNumber,
      Origin |-> query.origin,
      Expand |-> "true",
      Year |-> NumberToString(currentYear),
      Year2 |-> NumberToString(nextYear)]

\* a call of a method of browser[r]'s session by request r
Use(r) ==
  [sessions EXCEPT ![browser[r]].usedBy = @ \cup {r}]

\* browser.close() called by request r
CallClose(r) ==
  [sessions EXCEPT ![browser[r]].usedBy = @ \cup {r},
                   ![browser[r]].closeCalls = @ + 1]

Failure(r, message) ==
  [status |-> 500, error |-> "Scraping failed", message |-> message,
   orderNumber |-> q[r].orderNumber, origin |-> q[r].origin, year |-> q[r].year]

CatchNoClose(r, message) ==
  /\ error' = [error EXCEPT ![r] = message]
  /\ resp' = [resp EXCEPT ![r] = Failure(r, message)]
  /\ closesAtSend' = [closesAtSend EXCEPT ![r] =
                        IF browser[r] = 0 THEN 0 ELSE sessions[browser[r]].closeCalls]
  /\ pc' = [pc EXCEPT ![r] = "done"]
  /\ UNCHANGED sessions

\* the catch block entered with error.message = message: close the browser
\* if there is one and wait for it, else send the 500 at once
Catch(r, message) ==
  /\ error' = [error EXCEPT ![r] = message]
  /\ IF browser[r] # 0
     THEN /\ sessions' = CallClose(r)
          /\ pc' = [pc EXCEPT ![r] = "catchClose"]
          /\ UNCHANGED <<resp, closesAtSend>>
     ELSE /\ resp' = [resp EXCEPT ![r] = Failure(r, message)]
          /\ closesAtSend' = [closesAtSend EXCEPT ![r] = 0]
          /\ pc' = [pc EXCEPT ![r] = "done"]
          /\ UNCHANGED sessions

\* lines 24-40: the request arrives; 400 when a parameter is missing, else
\* puppeteer.launch is called
Receive(r) ==
  /\ pc[r] = "idle"
  /\ \E query \in env.queries :
       /\ q' = [q EXCEPT ![r] = query]
       /\ IF query.orderNumber = <<>> \/ query.year = <<>> \/ query.origin = <<>>
          THEN /\ resp' = [resp EXCEPT ![r] =
                     [status |-> 400, error |-> "Missing required parameters",
                      received |-> query]]
               /\ pc' = [pc EXCEPT ![r] = "done"]
          ELSE /\ pc' = [pc EXCEPT ![r] = "launch"]
               /\ UNCHANGED resp
  /\ UNCHANGED <<browser, sessions, navUrl, gotoCalls, doc, result, error,
                 closesAtSend, connected, env, ext, bal>>

LaunchOkPooled(r) ==
  /\ pc[r] = "launch"
  /\ LET open == { s \in Requests : sessions[s].launched }
         b == IF open = {} THEN r ELSE SetMin(open)
     IN /\ browser' = [browser EXCEPT ![r] = b]
        /\ sessions' = [sessions EXCEPT ![b].launched = TRUE, ![b].usedBy = @ \cup {r}]
  /\ pc' = [pc EXCEPT ![r] = "newPage"]
  /\ UNCHANGED <<q, navUrl, gotoCalls, doc, result, error, resp, closesAtSend,
                 connected, env, ext, bal>>

\* line 40 resolves with a new browser; line 50 calls browser.newPage
LaunchOk(r) ==
  /\ pc[r] = "launch"
  /\ browser' = [browser EXCEPT ![r] = r]
  /\ sessions' = [sessions EXCEPT ![r] = [launched |-> TRUE, closeCalls |-> 0, usedBy |-> {r}]]
  /\ pc' = [pc EXCEPT ![r] = "newPage"]
  /\ UNCHANGED <<q, navUrl, gotoCalls, doc, result, error, resp, closesAtSend,
                 connected, env, ext, bal>>

\* line 40 rejects
LaunchFail(r) ==
  /\ pc[r] = "launch"
  /\ Catch(r, "Failed to launch the browser process")
  /\ UNCHANGED <<q, browser, navUrl, gotoCalls, doc, result, connected, env, ext, bal>>

\* line 50 resolves; line 51 calls page.setUserAgent
NewPageOk(r) ==
  /\ pc[r] = "newPage"
  /\ sessions' = Use(r)
  /\ pc' = [pc EXCEPT ![r] = "setUserAgent"]
  /\ UNCHANGED <<q, browser, navUrl, gotoCalls, doc, result, error, resp,
                 closesAtSend, connected, env, ext, bal>>

\* line 50 rejects
NewPageFail(r) ==
  /\ pc[r] = "newPage"
  /\ Catch(r, "newPage failed")
  /\ UNCHANGED <<q, browser, navUrl, gotoCalls, doc, result, connected, env, ext, bal>>

\* line 51 resolves; lines 53-59 build the address and call page.goto
SetUserAgentOk(r) ==
  /\ pc[r] = "setUserAgent"
  /\ navUrl' = [navUrl EXCEPT ![r] = BuildUrl(q[r])]
  /\ gotoCalls' = [gotoCalls EXCEPT ![r] = @ + 1]
  /\ sessions' = Use(r)
  /\ pc' = [pc EXCEPT ![r] = "goto"]
  /\ UNCHANGED <<q, browser, doc, result, error, resp, closesAtSend, connected, env, ext, bal>>

\* line 51 rejects
SetUserAgentFail(r) ==
  /\ pc[r] = "setUserAgent"
  /\ Catch(r, "setUserAgent failed")
  /\ UNCHANGED <<q, browser, navUrl, gotoCalls, doc, result, connected, env, ext, bal>>

\* line 59 resolves with the document loaded; line 64 calls page.evaluate
GotoOk(r) ==
  /\ pc[r] = "goto"
  /\ \E d \in env.docs : doc' = [doc EXCEPT ![r] = d]
  /\ sessions' = Use(r)
  /\ pc' = [pc EXCEPT ![r] = "evaluate"]
  /\ UNCHANGED <<q, browser, navUrl, gotoCalls, result, error, resp, closesAtSend,
                 connected, env, ext, bal>>

\* line 59 rejects: the 30 s timeout or a network error
GotoFail(r) ==
  /\ pc[r] = "goto"
  /\ \E m \in NavigationErrors : Catch(r, m)
  /\ UNCHANGED <<q, browser, navUrl, gotoCalls, doc, result, connected, env, ext, bal>>

\* line 64 resolves with the callback's value; line 103 calls browser.close
EvaluateOk(r) ==
  /\ pc[r] = "evaluate"
  /\ result' = [result EXCEPT ![r] = Evaluate(doc[r], q[r].orderNumber)]
  /\ sessions' = CallClose(r)
  /\ pc' = [pc EXCEPT ![r] = "close"]
  /\ UNCHANGED <<q, browser, navUrl, gotoCalls, doc, error, resp, closesAtSend,
                 connected, env, ext, bal>>

\* line 64 rejects (the page crashed, the frame was detached)
EvaluateFail(r) ==
  /\ pc[r] = "evaluate"
  /\ Catch(r, "Execution context was destroyed")
  /\ UNCHANGED <<q, browser, navUrl, gotoCalls, doc, result, connected, env, ext, bal>>

\* line 103 resolves; lines 105-121 send the 404 or the 200
CloseOk(r) ==
  /\ pc[r] = "close"
  /\ resp' = [resp EXCEPT ![r] =
       IF result[r].null
       THEN [status |-> 404, error |-> "Quota not found",
             orderNumber |-> q[r].orderNumber, origin |-> q[r].origin, year |-> q[r].year]
       ELSE [status |-> 200, success |-> TRUE, data |-> result[r]]]
  /\ closesAtSend' = [closesAtSend EXCEPT ![r] = sessions[browser[r]].closeCalls]
  /\ pc' = [pc EXCEPT ![r] = "done"]
  /\ UNCHANGED <<q, browser, sessions, navUrl, gotoCalls, doc, result, error,
                 connected, env, ext, bal>>

\* line 103 rejects
CloseFail(r) ==
  /\ pc[r] = "close"
  /\ Catch(r, CloseError)
  /\ UNCHANGED <<q, browser, navUrl, gotoCalls, doc, result, connected, env, ext, bal>>

\* line 127 resolves; lines 130-136 send the 500
CatchCloseOk(r) ==
  /\ pc[r] = "catchClose"
  /\ resp' = [resp EXCEPT ![r] = Failure(r, error[r])]
  /\ closesAtSend' = [closesAtSend EXCEPT ![r] = sessions[browser[r]].closeCalls]
  /\ pc' = [pc EXCEPT ![r] = "done"]
  /\ UNCHANGED <<q, browser, sessions, navUrl, gotoCalls, doc, result, error,
                 connected, env, ext, bal>>

\* line 127 rejects: the exception leaves the catch block, the handler's
\* promise rejects and nothing is sent
CatchCloseFail(r) ==
  /\ pc[r] = "catchClose"
  /\ pc' = [pc EXCEPT ![r] = "rejected"]
  /\ UNCHANGED <<q, browser, sessions, navUrl, gotoCalls, doc, result, error, resp,
                 closesAtSend, connected, env, ext, bal>>

\* the caller goes away while the handler waits for the launch or the
\* navigation; nothing in the handler observes it
Disconnect(r) ==
  /\ pc[r] \in {"launch", "goto"}
  /\ connected[r]
  /\ connected' = [connected EXCEPT ![r] = FALSE]
  /\ UNCHANGED <<pc, q, browser, sessions, navUrl, gotoCalls, doc, result, error,
                 resp, closesAtSend, env, ext, bal>>

\* one settled await of the handler of request r
Step(r) ==
  \/ Receive(r)
  \/ LaunchFail(r)
  \/ LaunchOk(r)
  \/ NewPageFail(r)
  \/ NewPageOk(r)
  \/ SetUserAgentFail(r)
  \/ SetUserAgentOk(r)
  \/ GotoFail(r)
  \/ GotoOk(r)
  \/ EvaluateFail(r)
  \/ EvaluateOk(r)
  \/ CloseFail(r)
  \/ CloseOk(r)
  \/ CatchCloseFail(r)
  \/ CatchCloseOk(r)

IdleHandler ==
  /\ pc = [r \in Requests |-> "idle"]
  /\ q = [r \in Requests |-> Null]
  /\ browser = [r \in Requests |-> 0]
  /\ sessions = [s \in Requests |-> NoSession]
  /\ navUrl = [r \in Requests |-> Null]
  /\ gotoCalls = [r \in Requests |-> 0]
  /\ doc = [r \in Requests |-> <<>>]
  /\ result = [r \in Requests |-> Null]
  /\ error = [r \in Requests |-> ""]
  /\ resp = [r \in Requests |-> NoResp]
  /\ closesAtSend = [r \in Requests |-> 0]
  /\ connected = [r \in Requests |-> TRUE]

Init ==
  /\ IdleHandler
  /\ env = [queries |-> HandlerQueries, docs |-> HandlerDocs]
  /\ ext = NoExt
  /\ bal = NoBal

Next == \E r \in Requests : Step(r)

Spec == Init /\ [][Next]_vars

\* the requests of callers that may go away while the handler is suspended
InitLive ==
  /\ IdleHandler
  /\ env = [queries |-> { qq \in HandlerQueries : qq.orderNumber = Ord07 },
            docs |-> { DocFound }]
  /\ ext = NoExt
  /\ bal = NoBal

NextLive == \E r \in Requests : Step(r) \/ Disconnect(r)

\* every pending await settles: the event loop keeps running the handlers
LiveSpec == InitLive /\ [][NextLive]_vars /\ \A r \in Requests : WF_vars(Step(r))

\* ------------------------------------------------------------------------
\* Properties
\* ------------------------------------------------------------------------
Exited(r) == pc[r] \in {"done", "rejected"}

\* page.evaluate of request r has resolved
Evaluated(r) ==
  /\ pc[r] \in {"close", "catchClose", "done", "rejected"}
  /\ doc[r] # <<>>
  /\ error[r] \in {"", CloseError}

\* a row the scan may build the record from: five cells or more, the key
\* equal to the order number, the balance cell matching the pattern
Qualifies(row, ordNum) ==
  /\ Len(row) >= 5
  /\ trim(row[1]) = ordNum
  /\ ~RegexMatch(trim(row[5])).null

QualifyingRows(rows, ordNum) == { i \in 1..Len(rows) : Qualifies(rows[i], ordNum) }

NotFound(r) ==
  [status |-> 404, error |-> "Quota not found",
   orderNumber |-> q[r].orderNumber, origin |-> q[r].origin, year |-> q[r].year]

\* C1: every request that launched a browser has called browser.close()
\* exactly once when its handler exits, never twice, and at least once by
\* the time its response is sent.
C1_CloseExactlyOnce ==
  \A r \in Requests :
    browser[r] # 0 =>
      /\ sessions[browser[r]].closeCalls <= 1
      /\ Exited(r) => sessions[browser[r]].closeCalls = 1
      /\ resp[r].status # 0 => closesAtSend[r] >= 1

\* C2: a request whose launch, page setup, navigation or extraction raised
\* an error ends with the 500 carrying that error's message and the query,
\* never with a record, and has called page.goto at most once.
C2_FailureReported ==
  \A r \in Requests :
    /\ gotoCalls[r] <= 1
    /\ (Exited(r) /\ error[r] \notin {"", CloseError}) =>
         /\ resp[r] = Failure(r, error[r])
         /\ result[r].null

\* C3: the record is built from the earliest qualifying row, whatever rows
\* follow it; without a qualifying row there is no record.
C3_FirstMatchWins ==
  ext.phase = "evaluated" =>
    LET Q == QualifyingRows(ext.rows, ext.ordNum)
    IN IF Q = {} THEN ext.out.row = 0 /\ ext.out.record.null
       ELSE LET cells == ext.rows[SetMin(Q)]
            IN /\ ext.out.row = SetMin(Q)
               /\ ~ext.out.record.null
               /\ ext.out.record.orderNumber = ext.ordNum
               /\ ext.out.record.origin = trim(cells[2])
               /\ ext.out.record.startDate = trim(cells[3])
               /\ ext.out.record.endDate = trim(cells[4])
               /\ ext.out.record.balanceKg = ParseBalance(cells[5]).balanceKg

C3_Witness ==
  /\ ext.phase = "evaluated"
  /\ ext.out.row = 1
  /\ Cardinality(QualifyingRows(ext.rows, ext.ordNum)) = 2
  /\ ext.rows[1][5] # ext.rows[2][5]

\* C4: a row with fewer than five cells, or whose trimmed first cell is
\* not character for character the order number, is never the row the
\* record is built from.
C4_FilteredRowsNeverSelected ==
  ext.phase = "evaluated" =>
    \A i \in 1..Len(ext.rows) :
      (Len(ext.rows[i]) < 5 \/ trim(ext.rows[i][1]) # ext.ordNum) => ext.out.row # i

C4_Witness ==
  /\ ext.phase = "evaluated"
  /\ Len(ext.rows) = 2
  /\ ext.ordNum = OrdA7
  /\ trim(ext.rows[1][1]) = <<"A", "7">>
  /\ ext.out.row = 2

\* n is v = num / 10^scale rounded to the nearest integer, ties upwards
IsHalfUp(n, num, scale) ==
  /\ 2 * n * Pow10(scale) - Pow10(scale) <= 2 * num
  /\ 2 * num < 2 * n * Pow10(scale) + Pow10(scale)

\* C5: for a matched balance cell with numeric value v, balanceKg is v
\* rounded half-up when the unit is Kilogram or kg, and v * 1000 rounded
\* half-up when the unit begins with t, in any letter case; spelling the
\* unit in another letter case does not change balanceKg.
C5_BalanceNormalised ==
  (bal.phase = "parsed" /\ bal.out.matched /\ ~bal.out.rawValue.nan) =>
    LET unit == toLowerCase(bal.out.g2)
        v == bal.out.rawValue
        kg == bal.out.balanceKg
    IN /\ ~kg.nan /\ kg.scale = 0
       /\ unit \in {toLowerCase(UnitAlternatives[1]), UnitAlternatives[3]} =>
            IsHalfUp(kg.num, v.num, v.scale)
       /\ unit[1] = "t" => IsHalfUp(kg.num, 1000 * v.num, v.scale)
       /\ \A u \in UnitSpellings :
            toLowerCase(u) = toLowerCase(bal.suf) =>
              ParseBalance(bal.pre \o bal.tok \o u).balanceKg = kg

C5_Witness ==
  /\ bal.phase = "parsed"
  /\ bal.tok = <<"1", "2", "3", "4", ".", "5">>
  /\ bal.suf = UnitAlternatives[1]
  /\ bal.out.matched
  /\ bal.out.balanceKg = Num(1235, 0)

\* C6: every record of a 200 response has balanceKg a non-negative whole
\* number and unit "Kilogram".
C6_BalanceKgWholeNumber ==
  \A r \in Requests :
    resp[r].status = 200 =>
      /\ ~resp[r].data.balanceKg.nan
      /\ resp[r].data.balanceKg.scale = 0
      /\ resp[r].data.balanceKg.num >= 0
      /\ resp[r].data.unit = "Kilogram"

RECURSIVE SeparatorsFrom(_, _)
SeparatorsFrom(s, p) ==
  IF p > Len(s) THEN <<Len(s) + 1>>
  ELSE IF s[p] = "-" THEN <<p>> \o SeparatorsFrom(s, p + 1)
  ELSE SeparatorsFrom(s, p + 1)

Separators(s) == <<0>> \o SeparatorsFrom(s, 1)

NumComponents(s) == Len(Separators(s)) - 1

\* the k-th of the components of s that the separators delimit
Component(s, k) == SubSeq(s, Separators(s)[k] + 1, Separators(s)[k + 1] - 1)

\* C8: the StartDate segment of moreInfoUrl has the '-'-separated
\* components of startDate in reversed order and the Code segment is the
\* order number; a row qualifies whatever its start date is.
C8_MoreInfoUrlReversesDate ==
  ext.phase = "evaluated" =>
    /\ ext.out.record.null <=> QualifyingRows(ext.rows, ext.ordNum) = {}
    /\ ~ext.out.record.null =>
         LET sd == ext.out.record.startDate
             seg == ext.out.record.moreInfoUrl.StartDate
             n == NumComponents(sd)
         IN /\ sd = trim(ext.rows[ext.out.row][3])
            /\ ext.out.record.moreInfoUrl.Code = ext.ordNum
            /\ NumComponents(seg) = n
            /\ \A k \in 1..n : Component(seg, k) = Component(sd, n + 1 - k)
            /\ sd = Date1 =>
                 seg = <<"2", "0", "2", "5", "-", "0", "3", "-", "0", "5">>

C8_Witness ==
  /\ ext.phase = "evaluated"
  /\ ~ext.out.record.null
  /\ ext.out.record.startDate = <<"5", "-", "3">>
  /\ ext.out.record.moreInfoUrl.StartDate = <<"3", "-", "5">>

\* the response the handler of request r sends, from r's own query,
\* document and error alone
OwnOutcome(r) ==
  IF error[r] # "" THEN Failure(r, error[r])
  ELSE IF QualifyingRows(doc[r], q[r].orderNumber) = {} THEN NotFound(r)
  ELSE [status |-> 200, success |-> TRUE,
        data |-> Evaluate(doc[r], q[r].orderNumber)]

\* C9: a request's browser is the one it launched itself, no browser is
\* ever used or closed by a request other than its launcher, and the
\* response of a request is determined by its own query, document and error.
C9_SessionsNotShared ==
  /\ \A r \in Requests :
       /\ browser[r] # 0 => browser[r] = r /\ sessions[r].launched
       /\ sessions[r].usedBy \subseteq {r}
       /\ resp[r].status \in {200, 404, 500} => resp[r] = OwnOutcome(r)
  /\ \A r1, r2 \in Requests :
       (r1 # r2 /\ browser[r1] # 0) => browser[r1] # browser[r2]

C9_Witness ==
  \E r1, r2 \in Requests :
    /\ r1 # r2
    /\ pc[r1] = "evaluate"
    /\ pc[r2] = "done"
    /\ sessions[r1].closeCalls = 0
    /\ sessions[r2].closeCalls = 2
    /\ resp[r2].status = 500

\* C10: every browser that is launched has browser.close() called on it
\* eventually, also when the caller has gone away during the launch or the
\* navigation.
C10_SessionEventuallyClosed ==
  \A s \in Requests : sessions[s].launched ~> (sessions[s].closeCalls >= 1)

C10_Witness ==
  \E r \in Requests :
    /\ ~connected[r]
    /\ sessions[r].launched
    /\ sessions[r].closeCalls >= 1
    /\ Exited(r)

====
